---------------------------- MODULE Spec2Model ----------------------------
(***************************************************************************)
(* A model of yule_log's core crate: the typed field-extraction layer      *)
(* (crates/core/src/field_helpers.rs) and the parser builder               *)
(* (crates/core/src/builder.rs).                                           *)
(*                                                                         *)
(* MessageBuf (the message cursor) and ULogParser live in files that are   *)
(* not part of the modelled sources; they are modelled from their          *)
(* documented contract and say so where they are defined.                  *)
(*                                                                         *)
(* A decoded value is held as a sequence of naturals.  A numeric value is   *)
(* its bit pattern as a base-256 numeral, most significant digit first     *)
(* (the u16 0x0102 is <<1, 2>>: 64-bit values exceed TLC's integers); a    *)
(* bool is <<0>> (false) or <<1>> (true); a char is <<its code point>>.    *)
(***************************************************************************)
EXTENDS Integers, Sequences, FiniteSets, TLC

VARIABLES
    buf,              \* MessageBuf: the payload bytes of one message
    pos,              \* MessageBuf: the read position in buf
    ptr,              \* address of buf[1] (its residue decides alignment)
    target_endian,    \* cfg(target_endian) of the build: "little" | "big"
    overflow_checks,  \* build profile: TRUE when arithmetic overflow panics
    call,             \* the field_helpers call made: [fn, T, n, at (pos before it)]
    ret,              \* what that call returned
    builder,          \* <<>> or <<the ULogParserBuilder>>
    hist,             \* per builder method: <<>> or <<the last argument given>>
    parser,           \* <<>> or <<the ULogParser build() returned>>
    built,            \* build()'s Result: "none" | "ok" | an error kind
    frames,           \* the frames the parser has read, in order
    emitted,          \* records the parser has emitted, in order
    failed,           \* the parser hit a fatal error
    ref_emitted,      \* records a parser with no allow-list emits on the same frames
    ref_failed        \* ... and whether that parser hit a fatal error

vars == <<buf, pos, ptr, target_endian, overflow_checks, call, ret,
          builder, hist, parser, built, frames, emitted, failed,
          ref_emitted, ref_failed>>

fieldVars == <<buf, pos, ptr, target_endian, overflow_checks, call, ret>>
builderVars == <<builder, hist, parser, built>>
streamVars == <<frames, emitted, failed, ref_emitted, ref_failed>>

---------------------------------------------------------------------------
(* Bounds of the model.                                                    *)

MaxLen == 8        \* longest message payload
MaxPattern == 2    \* payload bytes repeat a pattern of this many bytes
MaxCount == 2      \* largest small array_size tried
MaxPtr == 1        \* buffer addresses 0..MaxPtr (modulo the alignment)
UsizeBits == 16    \* width of usize in the model (32 or 64 on real targets)

ByteVals == {0, 1, 255}

UsizeMax == 2^UsizeBits - 1
IsizeMax == 2^(UsizeBits - 1) - 1

Reverse(s) == [i \in 1..Len(s) |-> s[Len(s) + 1 - i]]

Patterns == [1..MaxPattern -> ByteVals]
Payload(pat, len) == [i \in 1..len |-> pat[((i - 1) % MaxPattern) + 1]]
Payloads == {Payload(pat, len) : pat \in Patterns, len \in 0..MaxLen}

\* array_size values: small ones, and ones whose byte size nears or passes
\* the word
Counts == (0..MaxCount) \cup {2^(UsizeBits - 3) + 1, 2^(UsizeBits - 2) + 1,
                              2^(UsizeBits - 1) + 1, UsizeMax}

---------------------------------------------------------------------------
(* Primitive types.                                                        *)

Types == {"u8", "u16", "u32", "u64", "i8", "i16", "i32", "i64",
          "f32", "f64", "bool", "char"}

\* std::mem::size_of::<T>()
SizeOf(T) ==
    CASE T \in {"u8", "i8", "bool"} -> 1
      [] T \in {"u16", "i16"} -> 2
      [] T \in {"u32", "i32", "f32", "char"} -> 4
      [] T \in {"u64", "i64", "f64"} -> 8

\* std::mem::align_of::<T>()
AlignOf(T) ==
    CASE T \in {"u8", "i8", "bool"} -> 1
      [] T \in {"u16", "i16"} -> 2
      [] T \in {"u32", "i32", "f32", "char"} -> 4
      [] T \in {"u64", "i64", "f64"} -> 8

---------------------------------------------------------------------------
(* MessageBuf: a bounds-checked cursor over one message's payload.         *)

EndOfPayload == "UnexpectedEndOfPayload"

\* remaining_bytes().len()
remaining_len(b, p) == Len(b) - p

\* advance(n): the next n bytes, or the end-of-payload error
advance(b, p, n) ==
    IF remaining_len(b, p) < n
    THEN [ok |-> FALSE, err |-> EndOfPayload, pos |-> p]
    ELSE [ok |-> TRUE, val |-> SubSeq(b, p + 1, p + n), pos |-> p + n]

\* {integer}::from_le_bytes: the value of bytes given least significant first
from_le_bytes(bytes) == Reverse(bytes)

\* take_<width>: consume `width` bytes and convert from little-endian
take_le(b, p, width) ==
    LET r == advance(b, p, width)
    IN  IF r.ok THEN [r EXCEPT !.val = from_le_bytes(r.val)] ELSE r

take_u8(b, p) == take_le(b, p, 1)
take_u16(b, p) == take_le(b, p, 2)
take_u32(b, p) == take_le(b, p, 4)
take_u64(b, p) == take_le(b, p, 8)
take_i8(b, p) == take_le(b, p, 1)
take_i16(b, p) == take_le(b, p, 2)
take_i32(b, p) == take_le(b, p, 4)
take_i64(b, p) == take_le(b, p, 8)
take_f32(b, p) == take_le(b, p, 4)
take_f64(b, p) == take_le(b, p, 8)

---------------------------------------------------------------------------
(* field_helpers.rs: scalar decode.                                        *)

Bool(c) == IF c THEN <<1>> ELSE <<0>>
Char(code_point) == <<code_point>>

\* A faulty variant: bool decoded as `== 1`
ParseFromBuf_bool_eq1(b, p) ==
    LET r == take_le(b, p, 1)
    IN  IF r.ok THEN [r EXCEPT !.val = Bool(r.val[1] = 1)] ELSE r

\* impl ParseFromBuf for bool: take_u8()? != 0
ParseFromBuf_bool(b, p) ==
    LET r == take_u8(b, p)
    IN  IF r.ok THEN [r EXCEPT !.val = Bool(r.val[1] # 0)] ELSE r

\* impl ParseFromBuf for char: take_u8()? as char (the code point)
ParseFromBuf_char(b, p) ==
    LET r == take_u8(b, p)
    IN  IF r.ok THEN [r EXCEPT !.val = Char(r.val[1])] ELSE r

\* T::parse_from_buf
ParseFromBuf(T, b, p) ==
    CASE T = "u8" -> take_u8(b, p)
      [] T = "u16" -> take_u16(b, p)
      [] T = "u32" -> take_u32(b, p)
      [] T = "u64" -> take_u64(b, p)
      [] T = "i8" -> take_i8(b, p)
      [] T = "i16" -> take_i16(b, p)
      [] T = "i32" -> take_i32(b, p)
      [] T = "i64" -> take_i64(b, p)
      [] T = "f32" -> take_f32(b, p)
      [] T = "f64" -> take_f64(b, p)
      [] T = "bool" -> ParseFromBuf_bool(b, p)
      [] T = "char" -> ParseFromBuf_char(b, p)

parse_data_field(T, b, p) == ParseFromBuf(T, b, p)

---------------------------------------------------------------------------
(* field_helpers.rs: array decode.                                         *)

\* What a call hands back.  kind: "ok" (val is the Vec), "err" (err is the
\* ULogError), "panic".  calls: scalar decodes made; len / written: the
\* Vec's length and the number of its slots that were written; path: the
\* branch taken; read / slice: bytes read from, and length of, the byte
\* range taken for the fast path; ub: undefined behaviour was executed.
Result(kind, val, p, err) ==
    [kind |-> kind, val |-> val, pos |-> p, err |-> err,
     calls |-> 0, len |-> Len(val), written |-> Len(val),
     path |-> "slow", read |-> 0, slice |-> 0, ub |-> FALSE]

\* Vec::with_capacity(n) panics ("capacity overflow") when the allocation
\* would exceed isize::MAX bytes
CapacityOverflow(T, n) == n * SizeOf(T) > IsizeMax

\* for i in 0..array_size { dst_ptr.add(i).write(parse_element(buf)?) }
\* with parse_element = parse_data_field::<T>
RECURSIVE parse_array_loop(_, _, _, _, _, _)
parse_array_loop(T, n, b, p, i, acc) ==
    IF i = n
    THEN [Result("ok", acc, p, "") EXCEPT !.calls = i]
    ELSE LET r == parse_data_field(T, b, p)
         IN  IF r.ok
             THEN parse_array_loop(T, n, b, r.pos, i + 1, Append(acc, r.val))
             ELSE \* `?`: the Vec (len 0, i slots written) is dropped
                  [Result("err", <<>>, r.pos, r.err) EXCEPT
                      !.calls = i + 1, !.written = i]

\* A faulty variant: a failing element ends the loop instead of returning
\* the error
parse_array_partial(T, n, b, p) ==
    LET r == parse_array_loop(T, n, b, p, 0, <<>>)
    IN  IF CapacityOverflow(T, n)
        THEN Result("panic", <<>>, p, "capacity overflow")
        ELSE IF r.kind = "err" THEN [r EXCEPT !.kind = "ok", !.len = n]
        ELSE r

parse_array(T, n, b, p) ==
    IF CapacityOverflow(T, n)
    THEN Result("panic", <<>>, p, "capacity overflow")
    ELSE parse_array_loop(T, n, b, p, 0, <<>>)

\* Reading a T from `size_of::<T>()` bytes of memory on the build's target.
\* A numeric T holds the bytes' value in the target's byte order; a bool is
\* valid for the bytes 0 and 1 only, a char for a Unicode scalar value only.
\* Reading another bit pattern is undefined: `u` is what the build yields.
from_ne_bytes(bytes, endian) ==
    IF endian = "little" THEN Reverse(bytes) ELSE bytes

ValidChar(d) ==
    /\ d[1] = 0
    /\ d[2] <= 16
    /\ ~(d[2] = 0 /\ d[3] \in 216..223)

read_memory(T, bytes, endian, u) ==
    CASE T = "bool" ->
            IF bytes[1] \in {0, 1}
            THEN [val |-> Bool(bytes[1] = 1), ub |-> FALSE]
            ELSE [val |-> Bool(u), ub |-> TRUE]
      [] T = "char" ->
            LET d == from_ne_bytes(bytes, endian)
            IN  IF ValidChar(d)
                THEN [val |-> Char(d[2] * 65536 + d[3] * 256 + d[4]),
                      ub |-> FALSE]
                ELSE [val |-> Char(IF u THEN 0 ELSE 65533), ub |-> TRUE]
      [] OTHER -> [val |-> from_ne_bytes(bytes, endian), ub |-> FALSE]

\* The n elements of size_of::<T>() bytes each that start at `bytes`
\* (copy_nonoverlapping, or the read_unaligned loop).  A read past the end
\* of `bytes` is undefined behaviour.
read_elements(T, n, bytes, endian, u) ==
    LET sz == SizeOf(T)
        inside == n * sz <= Len(bytes)
        m == IF inside THEN n ELSE Len(bytes) \div sz
        el == [i \in 1..m |->
                 read_memory(T, SubSeq(bytes, (i - 1) * sz + 1, i * sz), endian, u)]
    IN  [val |-> [i \in 1..m |-> el[i].val],
         ub |-> ~inside \/ \E i \in 1..m : el[i].ub]

\* Slow path: for _ in 0..array_size { array.push(parse_data_field(buf)?) }
RECURSIVE slow_path_loop(_, _, _, _, _, _)
slow_path_loop(T, n, b, p, i, acc) ==
    IF i = n
    THEN [Result("ok", acc, p, "") EXCEPT !.calls = i]
    ELSE LET r == parse_data_field(T, b, p)
         IN  IF r.ok
             THEN slow_path_loop(T, n, b, r.pos, i + 1, Append(acc, r.val))
             ELSE [Result("err", <<>>, r.pos, r.err) EXCEPT
                      !.calls = i + 1, !.written = i]

slow_path(T, n, b, p) ==
    IF CapacityOverflow(T, n)
    THEN Result("panic", <<>>, p, "capacity overflow")
    ELSE slow_path_loop(T, n, b, p, 0, <<>>)

\* let byte_size = array_size * size_of::<T>(): panics on overflow when
\* overflow checks are compiled in, wraps otherwise
MulOverflows(T, n) == n * SizeOf(T) > UsizeMax
byte_size(T, n) == (n * SizeOf(T)) % (UsizeMax + 1)

\* The fast path's body once the bounds check has passed: take the byte
\* range, then the aligned bulk copy or the unaligned per-element reads.
fast_path(T, n, b, p, address, endian, u) ==
    LET a == advance(b, p, byte_size(T, n))
        aligned == (address + p) % AlignOf(T) = 0
        e == read_elements(T, n, a.val, endian, u)
    IN  IF ~a.ok THEN Result("err", <<>>, a.pos, a.err)
        ELSE IF CapacityOverflow(T, n)
        THEN [Result("panic", <<>>, a.pos, "capacity overflow") EXCEPT
                 !.path = IF aligned THEN "aligned" ELSE "unaligned",
                 !.slice = Len(a.val)]
        ELSE [Result("ok", e.val, a.pos, "") EXCEPT
                 !.len = n, !.written = Len(e.val),
                 !.path = IF aligned THEN "aligned" ELSE "unaligned",
                 !.read = n * SizeOf(T), !.slice = Len(a.val),
                 !.ub = e.ub]

parse_typed_array(T, n, b, p, address, endian, checks, u) ==
    IF endian = "little" /\ SizeOf(T) > 0
    THEN IF checks /\ MulOverflows(T, n)
         THEN Result("panic", <<>>, p, "attempt to multiply with overflow")
         ELSE IF remaining_len(b, p) >= byte_size(T, n)
              THEN fast_path(T, n, b, p, address, endian, u)
              ELSE slow_path(T, n, b, p)
    ELSE slow_path(T, n, b, p)

---------------------------------------------------------------------------
(* ULogParser, as far as the builder and the data-message policy need it.  *)

MaxSubs == 2       \* longest iterable given to set_subscription_allow_list
MaxFrames == 2     \* frames read from one stream

Names == {"sensor_combined", "vehicle_status"}
MsgIds == {0, 1}

None == [some |-> FALSE, names |-> {}]
Some(set) == [some |-> TRUE, names |-> set]

\* The stream's fixed-size preamble: magic, version, timestamp
HeaderLen == 16
ExpectedMagic == <<85, 76, 111, 103, 1, 18, 53>>
ValidPreamble == ExpectedMagic \o <<1>> \o <<0, 0, 0, 0, 0, 0, 0, 1>>
Preambles == {ValidPreamble,
              SubSeq(ValidPreamble, 1, 3),
              <<85, 76, 111, 103, 1, 18, 54>> \o SubSeq(ValidPreamble, 8, 16),
              <<>>}

Readers == [preamble : Preambles]

\* ULogParser::new(reader): reads the preamble; the stream is rejected
\* unless the whole header is there and its magic matches.  No frame is
\* read here.
ULogParser_new(reader) ==
    IF Len(reader.preamble) < HeaderLen
       \/ SubSeq(reader.preamble, 1, Len(ExpectedMagic)) # ExpectedMagic
    THEN [ok |-> FALSE, err |-> "MalformedHeader"]
    ELSE [ok |-> TRUE,
          val |-> [reader |-> reader,
                   include_header |-> FALSE,
                   include_timestamp |-> FALSE,
                   include_padding |-> FALSE,
                   allowed_subscription_names |-> None,
                   set_allowed_calls |-> 0,
                   subscriptions |-> [id \in MsgIds |-> <<>>]]]

\* ULogParser::set_allowed_subscription_names
set_allowed_subscription_names(p, set) ==
    [p EXCEPT !.allowed_subscription_names = Some(set),
              !.set_allowed_calls = @ + 1]

---------------------------------------------------------------------------
(* builder.rs: ULogParserBuilder.                                          *)

\* ULogParserBuilder::new
new(reader) ==
    [reader |-> reader,
     include_header |-> FALSE,
     include_timestamp |-> FALSE,
     include_padding |-> FALSE,
     allowed_subscription_names |-> None]

\* ULogParserBuilder::from_file: File::open and Mmap::map may fail
from_file(file) ==
    IF ~file.opens
    THEN [ok |-> FALSE, err |-> "Io"]
    ELSE [ok |-> TRUE,
          val |-> [reader |-> [preamble |-> file.preamble],
                   include_header |-> FALSE,
                   include_timestamp |-> FALSE,
                   include_padding |-> FALSE,
                   allowed_subscription_names |-> None]]

include_header(self, include) == [self EXCEPT !.include_header = include]

include_timestamp(self, include) == [self EXCEPT !.include_timestamp = include]

include_padding(self, include) == [self EXCEPT !.include_padding = include]

\* A faulty variant: the new names are added to the set already there
set_subscription_allow_list_extend(self, subs) ==
    [self EXCEPT !.allowed_subscription_names =
                     Some(@.names \cup {subs[i] : i \in 1..Len(subs)})]

\* subs.into_iter().map(|s| s.into()).collect(): the set of the items
set_subscription_allow_list(self, subs) ==
    [self EXCEPT !.allowed_subscription_names =
                     Some({subs[i] : i \in 1..Len(subs)})]

\* A faulty variant: the allow-list is not handed to the parser
build_without_allow_list(self) ==
    LET result == ULogParser_new(self.reader)
    IN  IF result.ok
        THEN [ok |-> TRUE,
              val |-> [result.val EXCEPT
                          !.include_header = self.include_header,
                          !.include_timestamp = self.include_timestamp,
                          !.include_padding = self.include_padding]]
        ELSE [ok |-> FALSE, err |-> result.err]

\* A faulty variant: set_allowed_subscription_names is called whether or not
\* a list was given
build_always_sets(self) ==
    LET result == ULogParser_new(self.reader)
    IN  IF result.ok
        THEN [ok |-> TRUE,
              val |-> set_allowed_subscription_names(
                          [result.val EXCEPT
                              !.include_header = self.include_header,
                              !.include_timestamp = self.include_timestamp,
                              !.include_padding = self.include_padding],
                          self.allowed_subscription_names.names)]
        ELSE [ok |-> FALSE, err |-> result.err]

\* A faulty variant: a construction error is replaced by one of the
\* builder's own
build_masks_error(self) ==
    LET result == ULogParser_new(self.reader)
    IN  IF result.ok
        THEN [ok |-> TRUE,
              val |-> LET flagged == [result.val EXCEPT
                                         !.include_header = self.include_header,
                                         !.include_timestamp = self.include_timestamp,
                                         !.include_padding = self.include_padding]
                      IN  IF self.allowed_subscription_names.some
                          THEN set_allowed_subscription_names(
                                   flagged, self.allowed_subscription_names.names)
                          ELSE flagged]
        ELSE [ok |-> FALSE, err |-> "BuildFailed"]

build(self) ==
    LET result == ULogParser_new(self.reader)
    IN  IF result.ok
        THEN LET flagged == [result.val EXCEPT
                                !.include_header = self.include_header,
                                !.include_timestamp = self.include_timestamp,
                                !.include_padding = self.include_padding]
             IN  [ok |-> TRUE,
                  val |-> IF self.allowed_subscription_names.some
                          THEN set_allowed_subscription_names(
                                   flagged, self.allowed_subscription_names.names)
                          ELSE flagged]
        ELSE [ok |-> FALSE, err |-> result.err]

---------------------------------------------------------------------------
(* The decoding engine's handling of one frame.                            *)

\* Frames: a subscribe message ("A") declares msg_id, multi_id and name; a
\* data message ("D") starts with its msg_id, the fields follow.
to_le_bytes_u16(v) == <<v % 256, v \div 256>>

Bodies == {<<>>, <<1>>, <<0, 1>>, <<1, 0, 255>>}

Frames ==
    {[tag |-> "A", payload |-> to_le_bytes_u16(id) \o <<0>>, name |-> nm] :
        id \in MsgIds, nm \in Names}
    \cup
    {[tag |-> "D", payload |-> to_le_bytes_u16(id) \o body, name |-> ""] :
        id \in MsgIds, body \in Bodies}

\* The field layout the stream's format definitions give each name
FormatOf(name) ==
    IF name = "sensor_combined" THEN <<"u8", "bool">> ELSE <<"u16">>

Record(kind, id, name, fields, raw) ==
    [kind |-> kind, msg_id |-> id, name |-> name, fields |-> fields, raw |-> raw]

\* Decode every field of the layout, in declared order
RECURSIVE decode_fields(_, _, _, _, _)
decode_fields(fmt, b, p, i, acc) ==
    IF i > Len(fmt)
    THEN [ok |-> TRUE, val |-> acc, pos |-> p]
    ELSE LET r == parse_data_field(fmt[i], b, p)
         IN  IF r.ok
             THEN decode_fields(fmt, b, r.pos, i + 1, Append(acc, r.val))
             ELSE r

\* One frame, given the registry and the allow-list: the record emitted and
\* the registry afterwards, or the fatal error.
parse_message(subs, allowed, f) ==
    LET idr == take_u16(f.payload, 0)
        id == idr.val[1] * 256 + idr.val[2]
    IN  IF ~idr.ok THEN [ok |-> FALSE, err |-> idr.err]
        ELSE IF f.tag = "A"
        THEN [ok |-> TRUE,
              val |-> Record("AddSubscription", id, f.name, <<>>, <<>>),
              subs |-> [subs EXCEPT ![id] = <<f.name>>]]
        ELSE IF subs[id] = <<>>
        THEN [ok |-> FALSE, err |-> "UnresolvedSubscription"]
        ELSE LET name == subs[id][1]
                 d == decode_fields(FormatOf(name), f.payload, idr.pos, 1, <<>>)
             IN  IF allowed.some /\ name \notin allowed.names
                 THEN [ok |-> TRUE,
                       val |-> Record("Ignored", id, name, <<>>, f.payload),
                       subs |-> subs]
                 ELSE IF d.ok
                 THEN [ok |-> TRUE,
                       val |-> Record("LoggedData", id, name, d.val, <<>>),
                       subs |-> subs]
                 ELSE [ok |-> FALSE, err |-> d.err]

---------------------------------------------------------------------------
(* State machine.                                                          *)

NoCall == [fn |-> "none", T |-> "u8", n |-> 0, at |-> 0]
NoRet == [Result("none", <<>>, 0, "") EXCEPT !.path = "none"]
NoHist == [opened |-> "none",
           reader |-> <<>>,
           include_header |-> <<>>,
           include_timestamp |-> <<>>,
           include_padding |-> <<>>,
           set_subscription_allow_list |-> <<>>]

FieldsIdle ==
    /\ buf = <<>> /\ pos = 0 /\ ptr = 0
    /\ target_endian = "little" /\ overflow_checks = FALSE
    /\ call = NoCall /\ ret = NoRet

BuilderIdle ==
    /\ builder = <<>> /\ hist = NoHist /\ parser = <<>> /\ built = "none"
    /\ frames = <<>> /\ emitted = <<>> /\ failed = FALSE
    /\ ref_emitted = <<>> /\ ref_failed = FALSE

\* A message payload under a cursor at its start, on some build target
InitFields ==
    /\ buf \in Payloads
    /\ pos = 0
    /\ ptr \in 0..MaxPtr
    /\ target_endian \in {"little", "big"}
    /\ overflow_checks \in BOOLEAN
    /\ call = NoCall
    /\ ret = NoRet
    /\ BuilderIdle

InitBuilder == FieldsIdle /\ BuilderIdle

\* The cursor and the record of the call once `fn` has returned r
Called(fn, T, n, r) ==
    /\ call' = [fn |-> fn, T |-> T, n |-> n, at |-> pos]
    /\ ret' = r
    /\ pos' = r.pos
    /\ UNCHANGED <<buf, ptr, target_endian, overflow_checks>>
    /\ UNCHANGED <<builderVars, streamVars>>

CallParseDataField(T) ==
    /\ call.fn = "none"
    /\ LET r == parse_data_field(T, buf, pos)
       IN  Called("parse_data_field", T, 1,
                  IF r.ok
                  THEN [Result("ok", <<r.val>>, r.pos, "") EXCEPT !.calls = 1]
                  ELSE [Result("err", <<>>, r.pos, r.err) EXCEPT !.calls = 1])

CallParseArray(T, n) ==
    /\ call.fn = "none"
    /\ Called("parse_array", T, n, parse_array(T, n, buf, pos))

\* u: what the build yields where the fast path's behaviour is undefined
CallParseTypedArray(T, n, u) ==
    /\ call.fn = "none"
    /\ Called("parse_typed_array", T, n,
              parse_typed_array(T, n, buf, pos, ptr, target_endian,
                                overflow_checks, u))

NextFields ==
    \/ \E T \in Types : CallParseDataField(T)
    \/ \E T \in Types, n \in Counts : CallParseArray(T, n)
    \/ \E T \in Types, n \in Counts, u \in BOOLEAN : CallParseTypedArray(T, n, u)

SpecFields == InitFields /\ [][NextFields]_vars

Files == [opens : BOOLEAN, preamble : Preambles]
SubsLists == UNION {[1..k -> Names] : k \in 0..MaxSubs}

New(reader) ==
    /\ hist.opened = "none"
    /\ builder' = <<new(reader)>>
    /\ hist' = [hist EXCEPT !.opened = "new", !.reader = <<reader>>]
    /\ UNCHANGED <<parser, built, fieldVars, streamVars>>

FromFile(file) ==
    /\ hist.opened = "none"
    /\ LET r == from_file(file)
       IN  IF r.ok
           THEN /\ builder' = <<r.val>>
                /\ hist' = [hist EXCEPT !.opened = "from_file",
                                        !.reader = <<[preamble |-> file.preamble]>>]
           ELSE /\ builder' = <<>>
                /\ hist' = [hist EXCEPT !.opened = r.err]
    /\ UNCHANGED <<parser, built, fieldVars, streamVars>>

Configurable == builder # <<>> /\ built = "none"

IncludeHeader(include) ==
    /\ Configurable
    /\ builder' = <<include_header(builder[1], include)>>
    /\ hist' = [hist EXCEPT !.include_header = <<include>>]
    /\ UNCHANGED <<parser, built, fieldVars, streamVars>>

IncludeTimestamp(include) ==
    /\ Configurable
    /\ builder' = <<include_timestamp(builder[1], include)>>
    /\ hist' = [hist EXCEPT !.include_timestamp = <<include>>]
    /\ UNCHANGED <<parser, built, fieldVars, streamVars>>

IncludePadding(include) ==
    /\ Configurable
    /\ builder' = <<include_padding(builder[1], include)>>
    /\ hist' = [hist EXCEPT !.include_padding = <<include>>]
    /\ UNCHANGED <<parser, built, fieldVars, streamVars>>

SetSubscriptionAllowList(subs) ==
    /\ Configurable
    /\ builder' = <<set_subscription_allow_list(builder[1], subs)>>
    /\ hist' = [hist EXCEPT !.set_subscription_allow_list = <<subs>>]
    /\ UNCHANGED <<parser, built, fieldVars, streamVars>>

\* build(self) consumes the builder
Build ==
    /\ Configurable
    /\ LET r == build(builder[1])
       IN  IF r.ok
           THEN parser' = <<r.val>> /\ built' = "ok"
           ELSE parser' = <<>> /\ built' = r.err
    /\ UNCHANGED <<builder, hist, fieldVars, streamVars>>

\* The parser reads the next frame of its stream.  The same frame is given
\* to a parser that differs only in having no allow-list.
ReadFrame(f) ==
    /\ parser # <<>>
    /\ ~failed
    /\ Len(frames) < MaxFrames
    /\ LET p == parser[1]
           m == parse_message(p.subscriptions,
                              p.allowed_subscription_names, f)
           r == parse_message(p.subscriptions, None, f)
       IN  /\ frames' = Append(frames, f)
           /\ IF m.ok
              THEN /\ emitted' = Append(emitted, m.val)
                   /\ parser' = <<[p EXCEPT !.subscriptions = m.subs]>>
                   /\ failed' = FALSE
              ELSE /\ failed' = TRUE
                   /\ UNCHANGED <<emitted, parser>>
           /\ IF ref_failed THEN UNCHANGED <<ref_emitted, ref_failed>>
              ELSE IF r.ok
              THEN ref_emitted' = Append(ref_emitted, r.val)
                   /\ ref_failed' = FALSE
              ELSE ref_failed' = TRUE /\ UNCHANGED ref_emitted
    /\ UNCHANGED <<builder, hist, built, fieldVars>>

NextBuilder ==
    \/ \E reader \in Readers : New(reader)
    \/ \E file \in Files : FromFile(file)
    \/ \E include \in BOOLEAN : IncludeHeader(include)
    \/ \E include \in BOOLEAN : IncludeTimestamp(include)
    \/ \E include \in BOOLEAN : IncludePadding(include)
    \/ \E subs \in SubsLists : SetSubscriptionAllowList(subs)
    \/ Build

\* Configuring, building and constructing a parser
SpecBuilder == InitBuilder /\ [][NextBuilder]_vars

NextStream ==
    \/ \E reader \in Readers : New(reader)
    \/ \E file \in Files : FromFile(file)
    \/ \E include \in BOOLEAN : IncludeHeader(include)
    \/ \E subs \in SubsLists : SetSubscriptionAllowList(subs)
    \/ Build
    \/ \E f \in Frames : ReadFrame(f)

\* Building a parser and reading a stream with it
SpecStream == InitBuilder /\ [][NextStream]_vars

---------------------------------------------------------------------------
(* Properties of field_helpers.rs, checked under SpecFields.               *)

\* Bytes one scalar decode of T consumes
ScalarWidth(T) == parse_data_field(T, [i \in 1..8 |-> 0], 0).pos

\* The i-th of successive scalar decodes of T that start at `at`
ScalarAt(T, at, i) == parse_data_field(T, buf, at + (i - 1) * ScalarWidth(T))

\* How many successive scalar decodes of T succeed from `at`
ScalarsAvailable(T, at) == (Len(buf) - at) \div ScalarWidth(T)

TypedArrayCalled == call.fn = "parse_typed_array"

\* C1: parse_typed_array::<T>(n) and n successive parse_data_field::<T>
\* calls on the same bytes from the same position give the same values (and
\* the same failure), for every ParseFromBuf type T and either fast branch.
C1_FastPathEqualsElementWise ==
    TypedArrayCalled /\ ret.kind \in {"ok", "err"} =>
        LET e == parse_array(call.T, call.n, buf, call.at)
        IN  /\ ret.kind = e.kind
            /\ ret.val = e.val
            /\ ~ret.ub

\* C2: parse_typed_array::<T>(n) on a cursor holding fewer bytes than n
\* elements need returns the end-of-payload error, and an Ok array has
\* exactly n elements.
C2_ShortArrayIsError ==
    TypedArrayCalled =>
        /\ remaining_len(buf, call.at) < call.n * ScalarWidth(call.T) =>
               ret.kind = "err" /\ ret.err = EndOfPayload
        /\ ret.kind = "ok" => Len(ret.val) = call.n /\ ret.len = call.n

\* C6: for every array_size, wrapping products included, parse_typed_array
\* reads no more bytes than the byte range it took and does not panic.
C6_NoOverreadNoPanic ==
    TypedArrayCalled =>
        /\ ret.read <= ret.slice
        /\ ret.kind # "panic"

\* C7: scalar decode of bool takes one byte and is its being nonzero;
\* scalar decode of char takes one byte and is the code point of its value;
\* both fail with the end-of-payload error when no byte remains.
C7_BoolCharScalar ==
    call.fn = "parse_data_field" /\ call.T \in {"bool", "char"} =>
        IF remaining_len(buf, call.at) >= 1
        THEN /\ ret.kind = "ok"
             /\ ret.pos = call.at + 1
             /\ ret.val = <<IF call.T = "bool"
                            THEN Bool(buf[call.at + 1] \in 1..255)
                            ELSE Char(buf[call.at + 1])>>
        ELSE /\ ret.kind = "err"
             /\ ret.err = EndOfPayload
             /\ ret.pos = call.at

C7_Witness ==
    /\ call.fn = "parse_data_field" /\ call.T = "bool"
    /\ buf # <<>> /\ buf[1] = 255
    /\ ret.kind = "ok" /\ ret.val = <<Bool(TRUE)>> /\ pos = 1

\* C8: a successful parse_typed_array::<T>(n) advances the cursor by n times
\* the bytes one scalar decode of T consumes.
C8_AdvancesByScalarWidths ==
    TypedArrayCalled /\ ret.kind = "ok" =>
        pos = call.at + call.n * ScalarWidth(call.T)

\* C10: parse_array(n, buf, parse_element) calls parse_element n times and
\* returns the n results in call order when all succeed (nothing called or
\* consumed for n = 0); the first failing call's error is returned at once;
\* a returned array has every element written.
C10_ParseArray ==
    call.fn = "parse_array" =>
        LET k == ScalarsAvailable(call.T, call.at)
        IN  /\ ret.kind = "ok" =>
                /\ ret.calls = call.n
                /\ Len(ret.val) = call.n
                /\ \A i \in 1..call.n :
                       ret.val[i] = ScalarAt(call.T, call.at, i).val
                /\ pos = call.at + call.n * ScalarWidth(call.T)
            /\ ret.kind = "err" =>
                /\ k < call.n
                /\ ret.calls = k + 1
                /\ ret.err = ScalarAt(call.T, call.at, k + 1).err
            /\ ret.kind # "panic" => (ret.kind = "ok" <=> call.n <= k)
            /\ ret.len <= ret.written
            /\ ret.len = Len(ret.val)

C10_Witness ==
    /\ call.fn = "parse_array" /\ call.T = "u16" /\ call.n = 2
    /\ Len(buf) = 5
    /\ ret.kind = "ok" /\ ret.calls = 2 /\ pos = 4
    /\ ret.val = <<<<buf[2], buf[1]>>, <<buf[4], buf[3]>>>>

---------------------------------------------------------------------------
(* Properties of builder.rs, checked under SpecBuilder and SpecStream.     *)

\* The value a builder setting holds after the calls recorded in hist
LastOr(calls, default) == IF calls = <<>> THEN default ELSE calls[1]

Range(seq) == {seq[i] : i \in 1..Len(seq)}

ExpectedAllowList ==
    IF hist.set_subscription_allow_list = <<>>
    THEN None
    ELSE Some(Range(hist.set_subscription_allow_list[1]))

NoSetterCalled ==
    /\ hist.include_header = <<>>
    /\ hist.include_timestamp = <<>>
    /\ hist.include_padding = <<>>
    /\ hist.set_subscription_allow_list = <<>>

\* The name frame i's msg_id resolves to: that of the last subscribe frame
\* before it that declared the id
FrameId(i) == frames[i].payload[1] + 256 * frames[i].payload[2]

Declaring(i) ==
    {j \in 1..(i - 1) : frames[j].tag = "A" /\ FrameId(j) = FrameId(i)}

ResolvedName(i) ==
    frames[CHOOSE j \in Declaring(i) : \A h \in Declaring(i) : h <= j].name

AllowListSet == built = "ok" /\ hist.set_subscription_allow_list # <<>>

\* With an allow-list set: the record of every data frame whose name is not
\* listed is Ignored and carries the frame's payload; the record of every
\* data frame whose name is listed holds every field of its layout, decoded.
DataPolicy ==
    \A i \in 1..Len(emitted) :
        frames[i].tag = "D" =>
            LET name == ResolvedName(i)
            IN  IF name \in Range(hist.set_subscription_allow_list[1])
                THEN /\ emitted[i].kind = "LoggedData"
                     /\ emitted[i].name = name
                     /\ Len(emitted[i].fields) = Len(FormatOf(name))
                     /\ emitted[i].fields =
                            decode_fields(FormatOf(name), frames[i].payload,
                                          2, 1, <<>>).val
                ELSE emitted[i] =
                         Record("Ignored", FrameId(i), name, <<>>,
                                frames[i].payload)

\* Every frame read gives one record, up to a fatal error
NoFrameLost == Len(emitted) = Len(frames) - (IF failed THEN 1 ELSE 0)

C4_Defaults ==
    /\ builder # <<>> /\ NoSetterCalled =>
           builder[1] = [reader |-> hist.reader[1],
                         include_header |-> FALSE,
                         include_timestamp |-> FALSE,
                         include_padding |-> FALSE,
                         allowed_subscription_names |-> None]
    /\ built = "ok" /\ NoSetterCalled =>
           /\ ~parser[1].include_header
           /\ ~parser[1].include_timestamp
           /\ ~parser[1].include_padding
           /\ parser[1].allowed_subscription_names = None
    /\ built = "ok" /\ hist.set_subscription_allow_list = <<>> =>
           parser[1].set_allowed_calls = 0

C4_Witness ==
    /\ built = "ok" /\ NoSetterCalled /\ hist.opened = "from_file"
    /\ parser[1].allowed_subscription_names = None
    /\ parser[1].set_allowed_calls = 0

\* C5: when parser construction fails on the reader, build() returns that
\* error and no parser: no flag or allow-list is applied, no frame is read
\* and no record emitted, whatever setters were called before.
C5_BuildPropagatesError ==
    built # "none" =>
        LET result == ULogParser_new(hist.reader[1])
        IN  IF result.ok
            THEN built = "ok" /\ parser # <<>>
            ELSE /\ built = result.err
                 /\ parser = <<>>
                 /\ frames = <<>>
                 /\ emitted = <<>>

C5_Witness ==
    /\ built = "MalformedHeader"
    /\ Len(hist.reader[1].preamble) = 3
    /\ hist.include_header = <<TRUE>>
    /\ hist.set_subscription_allow_list # <<>>
    /\ parser = <<>> /\ emitted = <<>>

\* C9: each setter changes only its own setting, leaving the other three
\* and the reader as they were, so that the builder holds, and a successful
\* build() gives the parser, for each setting the value of the last call
\* made for it (the default if none); the allow-list is the set of the
\* names of the last list given, replacing any earlier one.
C9_LastCallWins ==
    /\ builder # <<>> =>
           builder[1] =
               [reader |-> hist.reader[1],
                include_header |-> LastOr(hist.include_header, FALSE),
                include_timestamp |-> LastOr(hist.include_timestamp, FALSE),
                include_padding |-> LastOr(hist.include_padding, FALSE),
                allowed_subscription_names |-> ExpectedAllowList]
    /\ built = "ok" =>
           /\ parser[1].reader = hist.reader[1]
           /\ parser[1].include_header = LastOr(hist.include_header, FALSE)
           /\ parser[1].include_timestamp = LastOr(hist.include_timestamp, FALSE)
           /\ parser[1].include_padding = LastOr(hist.include_padding, FALSE)
           /\ parser[1].allowed_subscription_names = ExpectedAllowList

C9_Witness ==
    /\ built = "ok"
    /\ hist.include_header = <<TRUE>>
    /\ hist.include_timestamp = <<>>
    /\ hist.include_padding = <<FALSE>>
    /\ hist.set_subscription_allow_list = <<<<"vehicle_status", "vehicle_status">>>>
    /\ parser[1].include_header /\ ~parser[1].include_padding
    /\ parser[1].allowed_subscription_names = Some({"vehicle_status"})

=============================================================================
